---- MODULE Spec2Model ----
(***************************************************************************)
(* Co-residency detector: the HostMetrics rolling windows, the detector's  *)
(* sample batch (phases a-e), the configuration reload, and the event bus  *)
(* the detector is subscribed to and emits on.                             *)
(*                                                                         *)
(* Python dicts are functions plus their insertion order; deques are       *)
(* sequences (oldest first).  Floats are exact rationals [num, den].       *)
(* An exception is the field exc of an intermediate result: every          *)
(* statement after the raising one is skipped and the state written so far *)
(* is kept, as in the code.                                                *)
(***************************************************************************)
EXTENDS Integers, Sequences, FiniteSets, TLC

\* ---------------------------------------------------------------- bounds
\* Sample batches delivered in one behaviour.
MaxBatches == 4
\* ConfigurationReloaded events delivered in one behaviour.
MaxReloads == 1

\* ---------------------------------------------------------------- inputs
Hosts == {"A", "B"}
Producers == {"p1"}
\* The thread whose SystemExit ends the interpreter.
MainThread == "main"
\* Handlers registered for SampleEvent after the detector's __update_metrics.
LaterSubscribers == {"listener"}
\* Key order of every sample dict (and so of every per-host dict).
MetricOrder == <<"Activity", "Cpu">>

Rat(n, d) == [num |-> n, den |-> d]

\* One sample of one host: metric name -> value.  "Activity" is required.
Samples ==
    { [Activity |-> 2, Cpu |-> 1],
      [Activity |-> 4] }

\* A SampleEvent payload: host id -> sample, for any subset of the hosts.
Payloads == UNION { [hs -> Samples] : hs \in SUBSET Hosts }

NoMitigation == [enabled |-> FALSE, FlagsBeforeActivation |-> 0,
                 DeflagsBeforeDeactivation |-> 0]
Mitig(f, d) == [enabled |-> TRUE, FlagsBeforeActivation |-> f,
                DeflagsBeforeDeactivation |-> d]

\* The configuration views the ConfigurationManager can hand out.
ConfigViews ==
    { [Mitigation |-> Mitig(1, 1),
       Thresholds |-> [Activity |-> Rat(0, 1), Cpu |-> Rat(1, 1)],
       MaxSamples |-> 3, SamplesBeforeInclusion |-> 1,
       SamplesBeforeExclusion |-> 0, NormalizeSamples |-> FALSE],
      [Mitigation |-> NoMitigation,
       Thresholds |-> [Activity |-> Rat(0, 1), Cpu |-> Rat(1, 2)],
       MaxSamples |-> 2, SamplesBeforeInclusion |-> 3,
       SamplesBeforeExclusion |-> 1, NormalizeSamples |-> TRUE] }

\* ---------------------------------------------------------------- helpers
Keys(d) == SelectSeq(MetricOrder, LAMBDA k : k \in DOMAIN d)

RECURSIVE Sum(_)
Sum(s) == IF s = <<>> THEN 0 ELSE Head(s) + Sum(Tail(s))

Abs(x) == IF x < 0 THEN -x ELSE x

\* Python 3 round(a / b) for b > 0: to nearest, ties to the even integer.
Round(a, b) ==
    LET q == a \div b
        r == a % b
    IN  IF 2 * r < b THEN q
        ELSE IF 2 * r > b THEN q + 1
        ELSE IF q % 2 = 0 THEN q ELSE q + 1

\* x <= y for rationals with positive denominators.
RatLeq(x, y) == x.num * y.den <= y.num * x.den

EmptyDict == [k \in {} |-> 0]

\* d[k] := v on a dict given as a function (the key may be new).
Put(d, k, v) == [x \in DOMAIN d \cup {k} |-> IF x = k THEN v ELSE d[x]]

\* ------------------------------------------------------------ HostMetrics
Ok(hm) == [hm |-> hm, exc |-> "none"]
Raise(r, e) == [r EXCEPT !.exc = e]

\* The activity status after a sample (hysteresis).
AdjustActive(hm) ==
    LET s == Sum(hm.metrics["Activity"])
    IN  IF s > hm.activity_threshold THEN [hm EXCEPT !.active = TRUE]
        ELSE IF s < hm.inactivity_threshold THEN [hm EXCEPT !.active = FALSE]
        ELSE hm

\* HostMetrics.__init__ (initial_metrics holds "Activity").
NewHostMetrics(initial, max_samples, activity_threshold, inactivity_threshold, pref_normalized) ==
    AdjustActive(
      [metrics |-> [k \in DOMAIN initial |-> <<initial[k]>>],
       normalized |-> [k \in DOMAIN initial |-> <<initial[k]>>],
       aliased |-> FALSE,
       max_samples |-> max_samples,
       current_samples |-> 1,
       activity_threshold |->
           IF activity_threshold > 0 THEN activity_threshold
           ELSE max_samples - 1,
       inactivity_threshold |->
           IF inactivity_threshold > 0 THEN inactivity_threshold ELSE 1,
       pref_normalized |-> pref_normalized,
       deltas |-> EmptyDict,
       active |-> FALSE])

\* Write deque `which`[key]; once record_sample has bound normalized['Activity']
\* to the very deque of metrics['Activity'], a write to either is seen in both.
Store(hm, which, key, seq) ==
    IF hm.aliased /\ key = "Activity"
    THEN [hm EXCEPT !.metrics[key] = seq, !.normalized[key] = seq]
    ELSE [hm EXCEPT ![which][key] = seq]

\* self.<which>[key].popleft()
PopLeft(r, which, key) ==
    IF r.exc # "none" THEN r
    ELSE IF key \notin DOMAIN r.hm.metrics THEN Raise(r, "KeyError")
    ELSE IF r.hm[which][key] = <<>> THEN Raise(r, "IndexError")
    ELSE [r EXCEPT !.hm = Store(r.hm, which, key, Tail(r.hm[which][key]))]

PopBoth(r, key) == PopLeft(PopLeft(r, "metrics", key), "normalized", key)

RECURSIVE PopAll(_, _)
PopAll(r, ks) ==
    IF ks = <<>> THEN r ELSE PopAll(PopBoth(r, Head(ks)), Tail(ks))

\* metrics[key].append(value); normalized[key].append(metrics[key][-1] - metrics[key][-2])
AppendSample(r, key, value) ==
    IF r.exc # "none" THEN r
    ELSE IF key \notin DOMAIN r.hm.metrics THEN Raise(r, "KeyError")
    ELSE
      LET h1 == Store(r.hm, "metrics", key, Append(r.hm.metrics[key], value))
          m == h1.metrics[key]
      IN  IF Len(m) < 2 THEN [hm |-> h1, exc |-> "IndexError"]
          ELSE Ok(Store(h1, "normalized", key,
                        Append(h1.normalized[key], m[Len(m)] - m[Len(m) - 1])))

RECURSIVE AppendAll(_, _, _)
AppendAll(r, sample, ks) ==
    IF ks = <<>> THEN r
    ELSE AppendAll(AppendSample(r, Head(ks), sample[Head(ks)]), sample, Tail(ks))

\* HostMetrics.record_sample
record_sample(hm, sample) ==
    LET r0 == IF hm.current_samples = hm.max_samples
              THEN PopAll(Ok(hm), Keys(sample))
              ELSE Ok([hm EXCEPT !.current_samples = @ + 1])
        r1 == AppendAll(r0, sample, Keys(sample))
    IN  IF r1.exc # "none" THEN r1
        ELSE Ok(AdjustActive(
                 [r1.hm EXCEPT !.normalized["Activity"] = r1.hm.metrics["Activity"],
                               !.aliased = TRUE]))

\* HostMetrics.get_metrics
get_metrics(hm) ==
    LET collection == IF hm.pref_normalized THEN hm.normalized ELSE hm.metrics
    IN  [k \in DOMAIN hm.metrics |-> Round(Sum(collection[k]), hm.current_samples)]

\* HostMetrics.__adjust_sample_size: the loop body, run `n` more times.
RECURSIVE DropOldest(_, _)
DropOldest(r, n) ==
    IF n <= 0 \/ r.exc # "none" THEN r
    ELSE DropOldest(PopAll(r, Keys(r.hm.metrics)), n - 1)

adjust_sample_size(hm, new_max_samples) ==
    LET r == IF hm.max_samples > new_max_samples
             THEN DropOldest(Ok(hm), hm.max_samples - new_max_samples)
             ELSE Ok(hm)
    IN  IF r.exc # "none" THEN r
        ELSE Ok([r.hm EXCEPT !.max_samples = new_max_samples])

\* HostMetrics.reconfigure
reconfigure(hm, new_max_samples, new_activity_threshold, new_inactivity_threshold, new_pref_normalized) ==
    adjust_sample_size(
        [hm EXCEPT !.activity_threshold = new_activity_threshold,
                   !.inactivity_threshold = new_inactivity_threshold,
                   !.pref_normalized = new_pref_normalized],
        new_max_samples)

\* deltas[key] = abs(1.0 - metrics[key] / global_metrics[key]), the global value
\* being the rational num/den.
SetDelta(r, report, global_metrics, key) ==
    IF r.exc # "none" THEN r
    ELSE IF key \notin DOMAIN global_metrics THEN Raise(r, "KeyError")
    ELSE IF global_metrics[key].num = 0 THEN Raise(r, "ZeroDivisionError")
    ELSE LET g == global_metrics[key]
         IN  Ok([r.hm EXCEPT !.deltas =
                    Put(@, key, Rat(Abs(g.num - report[key] * g.den), Abs(g.num)))])

RECURSIVE SetDeltas(_, _, _, _)
SetDeltas(r, report, global_metrics, ks) ==
    IF ks = <<>> THEN r
    ELSE SetDeltas(SetDelta(r, report, global_metrics, Head(ks)), report,
                   global_metrics, Tail(ks))

\* HostMetrics.update_deltas
update_deltas(hm, global_metrics) ==
    SetDeltas(Ok(hm), get_metrics(hm), global_metrics, Keys(hm.metrics))

\* ---------------------------------------------------- CoResidencyDetector
\* Key order of a SampleEvent payload, and so of host_metrics.
HostOrder == <<"A", "B">>
PayloadKeys(p) == SelectSeq(HostOrder, LAMBDA h : h \in DOMAIN p)

InSeq(x, s) == \E i \in 1..Len(s) : s[i] = x

\* `if 'Activity' not in initial_metrics.keys(): ... sys.exit(1)` of
\* HostMetrics.__init__: SystemExit leaves the constructor before anything is stored.
MissingActivity(sample) == "Activity" \notin DOMAIN sample

ConstructHost(sample, cfg) ==
    NewHostMetrics(sample, cfg.MaxSamples, cfg.SamplesBeforeInclusion,
                   cfg.SamplesBeforeExclusion, cfg.NormalizeSamples)

\* One pass of the loop of phase (a): record_sample, and on KeyError (the host is
\* new, or record_sample met a metric name the host does not have) a fresh
\* HostMetrics stored under the host id.
RecordHost(d, payload, cfg, h) ==
    IF d.exc # "none" THEN d
    ELSE IF h \notin DOMAIN d.hm
    THEN IF MissingActivity(payload[h]) THEN [d EXCEPT !.exc = "SystemExit"]
         ELSE [d EXCEPT !.hm = Put(@, h, ConstructHost(payload[h], cfg)),
                        !.order = Append(@, h)]
    ELSE LET r == record_sample(d.hm[h], payload[h])
         IN  IF r.exc = "KeyError"
             THEN IF MissingActivity(payload[h]) THEN [d EXCEPT !.exc = "SystemExit"]
                  ELSE [d EXCEPT !.hm[h] = ConstructHost(payload[h], cfg),
                                 !.replaced = @ \cup {h}]
             ELSE [d EXCEPT !.hm[h] = r.hm, !.exc = r.exc]

RECURSIVE RecordHosts(_, _, _, _)
RecordHosts(d, payload, cfg, hs) ==
    IF hs = <<>> THEN d
    ELSE RecordHosts(RecordHost(d, payload, cfg, Head(hs)), payload, cfg, Tail(hs))

\* Phase (a) recording an empty sample for every known host the payload leaves out.
RecordSamples_AbsentAsEmpty(hm, order, payload, cfg) ==
    RecordHosts([hm |-> hm, order |-> order, exc |-> "none", replaced |-> {}],
                [h \in DOMAIN hm \cup DOMAIN payload |->
                    IF h \in DOMAIN payload THEN payload[h] ELSE EmptyDict],
                cfg,
                SelectSeq(HostOrder, LAMBDA h : h \in DOMAIN hm \cup DOMAIN payload))

\* Phase (a) of __update_metrics.
RecordSamples(hm, order, payload, cfg) ==
    RecordHosts([hm |-> hm, order |-> order, exc |-> "none", replaced |-> {}],
                payload, cfg, PayloadKeys(payload))

\* __update_global_metrics without the test of the active bit.
IsBenign_SkipsOnlyMitigated(hm, mitigated, h) == h \notin mitigated

\* The hosts __update_global_metrics does not skip.
IsBenign(hm, mitigated, h) == h \notin mitigated /\ hm[h].active

\* global_metrics[key] += value for every key of one host's report.
RECURSIVE AddReport(_, _, _)
AddReport(acc, report, ks) ==
    IF ks = <<>> THEN acc
    ELSE AddReport(Put(acc, Head(ks),
                       IF Head(ks) \in DOMAIN acc THEN acc[Head(ks)] + report[Head(ks)]
                       ELSE report[Head(ks)]),
                   report, Tail(ks))

RECURSIVE SumBenign(_, _, _, _)
SumBenign(g, hm, mitigated, hs) ==
    IF hs = <<>> THEN g
    ELSE IF ~IsBenign(hm, mitigated, Head(hs))
    THEN SumBenign(g, hm, mitigated, Tail(hs))
    ELSE SumBenign([sums |-> AddReport(g.sums, get_metrics(hm[Head(hs)]),
                                        Keys(hm[Head(hs)].metrics)),
                    benign_hosts |-> g.benign_hosts + 1,
                    counted |-> g.counted \cup {Head(hs)}],
                   hm, mitigated, Tail(hs))

\* __update_global_metrics: the sums, the benign-host count and the hosts summed.
update_global_metrics(hm, order, mitigated) ==
    LET g == SumBenign([sums |-> EmptyDict, benign_hosts |-> 0, counted |-> {}],
                       hm, mitigated, order)
    IN  [global |-> IF g.benign_hosts # 0
                    THEN [k \in DOMAIN g.sums |-> Rat(g.sums[k], g.benign_hosts)]
                    ELSE EmptyDict,
         benign_hosts |-> g.benign_hosts,
         counted |-> g.counted]

RECURSIVE DeltaHosts(_, _, _)
DeltaHosts(d, global_metrics, hs) ==
    IF hs = <<>> \/ d.exc # "none" THEN d
    ELSE IF ~d.hm[Head(hs)].active THEN DeltaHosts(d, global_metrics, Tail(hs))
    ELSE LET r == update_deltas(d.hm[Head(hs)], global_metrics)
         IN  DeltaHosts([hm |-> [d.hm EXCEPT ![Head(hs)] = r.hm], exc |-> r.exc],
                        global_metrics, Tail(hs))

\* __update_host_deltas
update_host_deltas(hm, order, global_metrics) ==
    DeltaHosts([hm |-> hm, exc |-> "none"], global_metrics, order)

\* The inner loop with a delta equal to its threshold counted as exceeding it.
RECURSIVE TriggerFlag_EqualExceeds(_, _, _)
TriggerFlag_EqualExceeds(deltas, thresholds, ks) ==
    IF ks = <<>> THEN "flag"
    ELSE IF Head(ks) \notin DOMAIN thresholds THEN "KeyError"
    ELSE IF ~RatLeq(thresholds[Head(ks)], deltas[Head(ks)]) THEN "clear"
    ELSE TriggerFlag_EqualExceeds(deltas, thresholds, Tail(ks))

\* The inner loop of __update_host_flags: "flag" while every delta seen exceeds
\* its threshold, "clear" at the first that does not, KeyError at a delta whose
\* metric has no threshold.
RECURSIVE TriggerFlag(_, _, _)
TriggerFlag(deltas, thresholds, ks) ==
    IF ks = <<>> THEN "flag"
    ELSE IF Head(ks) \notin DOMAIN thresholds THEN "KeyError"
    ELSE IF RatLeq(deltas[Head(ks)], thresholds[Head(ks)]) THEN "clear"
    ELSE TriggerFlag(deltas, thresholds, Tail(ks))

\* d[h] += 1, or d[h] = 1 on KeyError.
Bump(d, h) == Put(d, h, IF h \in DOMAIN d THEN d[h] + 1 ELSE 1)
Ordered(order, h) == IF InSeq(h, order) THEN order ELSE Append(order, h)

\* The loop body with decay: a benign host that does not exceed loses its flags.
FlagHost_Decay(f, hm, mitigated, thresholds, h) ==
    IF f.exc # "none" \/ ~hm[h].active THEN f
    ELSE LET t == TriggerFlag(hm[h].deltas, thresholds, Keys(hm[h].deltas))
         IN  IF t = "KeyError" THEN [f EXCEPT !.exc = "KeyError"]
             ELSE IF t = "flag" /\ h \in mitigated
             THEN [f EXCEPT !.deflags = Put(@, h, 0),
                            !.deflagOrder = Ordered(@, h)]
             ELSE IF t = "flag"
             THEN [f EXCEPT !.flags = Bump(@, h), !.flagOrder = Ordered(@, h)]
             ELSE IF h \in mitigated
             THEN [f EXCEPT !.deflags = Bump(@, h),
                            !.deflagOrder = Ordered(@, h)]
             ELSE IF h \in DOMAIN f.flags THEN [f EXCEPT !.flags[h] = 0]
             ELSE f

\* The loop body without `if not is_active(): continue`.
FlagHost_IgnoresActive(f, hm, mitigated, thresholds, h) ==
    IF f.exc # "none" THEN f
    ELSE LET t == TriggerFlag(hm[h].deltas, thresholds, Keys(hm[h].deltas))
         IN  IF t = "KeyError" THEN [f EXCEPT !.exc = "KeyError"]
             ELSE IF t = "flag" /\ h \in mitigated
             THEN [f EXCEPT !.deflags = Put(@, h, 0),
                            !.deflagOrder = Ordered(@, h)]
             ELSE IF t = "flag"
             THEN [f EXCEPT !.flags = Bump(@, h), !.flagOrder = Ordered(@, h)]
             ELSE IF h \in mitigated
             THEN [f EXCEPT !.deflags = Bump(@, h),
                            !.deflagOrder = Ordered(@, h)]
             ELSE f

FlagHost(f, hm, mitigated, thresholds, h) ==
    IF f.exc # "none" \/ ~hm[h].active THEN f
    ELSE LET t == TriggerFlag(hm[h].deltas, thresholds, Keys(hm[h].deltas))
         IN  IF t = "KeyError" THEN [f EXCEPT !.exc = "KeyError"]
             ELSE IF t = "flag" /\ h \in mitigated
             THEN [f EXCEPT !.deflags = Put(@, h, 0),
                            !.deflagOrder = Ordered(@, h)]
             ELSE IF t = "flag"
             THEN [f EXCEPT !.flags = Bump(@, h), !.flagOrder = Ordered(@, h)]
             ELSE IF h \in mitigated
             THEN [f EXCEPT !.deflags = Bump(@, h),
                            !.deflagOrder = Ordered(@, h)]
             ELSE f

RECURSIVE FlagHosts(_, _, _, _, _)
FlagHosts(f, hm, mitigated, thresholds, hs) ==
    IF hs = <<>> THEN f
    ELSE FlagHosts(FlagHost(f, hm, mitigated, thresholds, Head(hs)), hm, mitigated,
                   thresholds, Tail(hs))

\* __update_host_flags
update_host_flags(flags, flagOrder, deflags, deflagOrder, hm, order, mitigated, thresholds) ==
    FlagHosts([flags |-> flags, flagOrder |-> flagOrder, deflags |-> deflags,
               deflagOrder |-> deflagOrder, exc |-> "none"],
              hm, mitigated, thresholds, order)

\* CoResidencyDetector.__update_config: reconfigure every host in dict order; an
\* exception leaves the hosts after it untouched.
RECURSIVE ReconfigureHosts(_, _, _)
ReconfigureHosts(d, cfg, hs) ==
    IF hs = <<>> \/ d.exc # "none" THEN d
    ELSE LET r == reconfigure(d.hm[Head(hs)], cfg.MaxSamples,
                              cfg.SamplesBeforeInclusion,
                              cfg.SamplesBeforeExclusion, cfg.NormalizeSamples)
         IN  ReconfigureHosts([hm |-> [d.hm EXCEPT ![Head(hs)] = r.hm],
                               exc |-> r.exc], cfg, Tail(hs))

update_config(hm, order, cfg) ==
    ReconfigureHosts([hm |-> hm, exc |-> "none"], cfg, order)

\* The dispatch loops comparing with >= instead of >.
RECURSIVE NextOver_AtLimit(_, _, _, _)
NextOver_AtLimit(counters, order, limit, from) ==
    IF from > Len(order) THEN 0
    ELSE IF counters[order[from]] >= limit THEN from
    ELSE NextOver_AtLimit(counters, order, limit, from + 1)

\* The dispatch loops of phase (e): the first position at or after `from` whose
\* counter exceeds `limit` (0 when there is none).
RECURSIVE NextOver(_, _, _, _)
NextOver(counters, order, limit, from) ==
    IF from > Len(order) THEN 0
    ELSE IF counters[order[from]] > limit THEN from
    ELSE NextOver(counters, order, limit, from + 1)

\* ------------------------------------------------------------------ state
VARIABLES
    configuration,       \* CoResidencyDetector.__configuration
    host_metrics,        \* host id -> HostMetrics
    host_order,          \* insertion order of host_metrics
    host_flags,          \* host id -> flags
    flag_order,          \* insertion order of host_flags
    host_deflags,        \* host id -> deflags
    deflag_order,        \* insertion order of host_deflags
    global_metrics,      \* metric -> rational
    mitigated_host_ids,
    bus_reentrant,       \* the event manager given to the constructor lets the
                         \* thread inside emit enter emit again (EventManager: no)
    bus_lock,            \* EventManager._lock: "free" or the holding thread
    detector_lock,       \* CoResidencyDetector.__lock
    pc,                  \* where each producer thread is
    exited,              \* the interpreter has exited (SystemExit on the main thread)
    cached,              \* ConfigurationManager.__configuration
    notified,            \* subscribers of SampleEvent the latest emit has called
    cursor,              \* position of the running dispatch loop
    \* history
    last_event,          \* host id -> last mitigation event delivered for it
    starts, stops,       \* host id -> events delivered in the latest batch
    crossed_start,       \* hosts over FlagsBeforeActivation when phase (e) began
    crossed_stop,        \* hosts over DeflagsBeforeDeactivation when phase (e) began
    counted,             \* hosts summed by the latest phase (b)
    benign_hosts,        \* divisor of the latest phase (b)
    batch,               \* the latest batch: status, exception and its phase,
                         \* empty payload
    nbatches, nreloads,
    \* SingletonMeta
    instances,           \* SingletonMeta._instances: class -> instance, 0 if absent
    singleton_lock,      \* SingletonMeta._lock: "free" or the holding thread
    call,                \* each thread's call of a singleton class: line reached,
                         \* class, local `instance`
    init_runs,           \* class -> how many times its __init__ has run
    returned,            \* class -> the instances its calls have returned
    ncalls

singleton_vars == <<instances, singleton_lock, call, init_runs, returned, ncalls>>

vars == <<configuration, host_metrics, host_order, host_flags, flag_order,
          host_deflags, deflag_order, global_metrics, mitigated_host_ids,
          bus_reentrant, bus_lock, detector_lock, pc, cursor, last_event, starts,
          stops, crossed_start, crossed_stop, counted, benign_hosts, batch,
          nbatches, nreloads, exited, cached, notified, instances, singleton_lock,
          call, init_runs, returned, ncalls>>

Zero == [h \in Hosts |-> 0]

Classes == {"EventManager", "CoResidencyDetector"}

NoCall == [at |-> "idle", cls |-> "none", instance |-> 0]

\* The singletons once the control plane has built them: one instance of
\* each class, nobody inside SingletonMeta.__call__.
SingletonsBuilt ==
    /\ instances = [c \in Classes |-> 1]
    /\ singleton_lock = "free"
    /\ call = [t \in {MainThread} |-> NoCall]
    /\ init_runs = [c \in Classes |-> 1]
    /\ returned = [c \in Classes |-> {1}]
    /\ ncalls = 0

\* CoResidencyDetector.__init__ (and EventManager.__init__)
Init ==
    /\ configuration \in ConfigViews
    /\ host_metrics = EmptyDict /\ host_order = <<>>
    /\ host_flags = EmptyDict /\ flag_order = <<>>
    /\ host_deflags = EmptyDict /\ deflag_order = <<>>
    /\ global_metrics = EmptyDict
    /\ mitigated_host_ids = {}
    /\ bus_reentrant \in BOOLEAN
    /\ bus_lock = "free" /\ detector_lock = "free"
    /\ pc = [t \in Producers |-> "idle"]
    /\ exited = FALSE /\ cached = configuration /\ notified = {}
    /\ cursor = 0
    /\ last_event = [h \in Hosts |-> "none"]
    /\ starts = Zero /\ stops = Zero
    /\ crossed_start = {} /\ crossed_stop = {}
    /\ counted = {} /\ benign_hosts = 0
    /\ batch = [status |-> "none", exc |-> "none", phase |-> "none", empty |-> FALSE,
                replaced |-> {}]
    /\ nbatches = 0 /\ nreloads = 0
    /\ SingletonsBuilt

\* `with self._lock` of EventManager.emit, entered by thread t.
CanEnterEmit(t) == IF bus_lock = t THEN bus_reentrant ELSE bus_lock = "free"

\* Phases (a)-(d) of __update_metrics put together: what each field is when the
\* handler reaches phase (e) or raises (a: phase (a), g: (b), c: (c), f: (d)).
BatchResult(a, g, c, f) ==
    LET phase == IF a.exc # "none" THEN "a"
                 ELSE IF c.exc # "none" THEN "c"
                 ELSE IF f.exc # "none" THEN "d" ELSE "none"
    IN  [host_metrics |-> IF phase = "a" THEN a.hm ELSE c.hm,
         host_order |-> a.order,
         replaced |-> a.replaced,
         global_metrics |-> IF phase = "a" THEN global_metrics ELSE g.global,
         counted |-> IF phase = "a" THEN {} ELSE g.counted,
         benign_hosts |-> IF phase = "a" THEN 0 ELSE g.benign_hosts,
         host_flags |-> IF phase \in {"a", "c"} THEN host_flags ELSE f.flags,
         flag_order |-> IF phase \in {"a", "c"} THEN flag_order ELSE f.flagOrder,
         host_deflags |-> IF phase \in {"a", "c"} THEN host_deflags ELSE f.deflags,
         deflag_order |-> IF phase \in {"a", "c"} THEN deflag_order ELSE f.deflagOrder,
         phase |-> phase,
         exc |-> IF phase = "a" THEN a.exc ELSE IF phase = "c" THEN c.exc ELSE f.exc]

\* Phase (e) from position `from` of loop `loop` ("start", then "stop") up to the
\* next emit, or to the return of the handler.
\* Phase (e) with the stop loop ahead of the start loop.
NextEmit_StopsFirst(loop, from, flags, flagOrder, deflags, deflagOrder, m) ==
    LET j == IF loop = "stop" \/ from = 1
             THEN NextOver(deflags, deflagOrder, m.DeflagsBeforeDeactivation, from)
             ELSE 0
        i == NextOver(flags, flagOrder, m.FlagsBeforeActivation,
                      IF loop = "stop" THEN 1 ELSE from)
    IN  IF j # 0 THEN [pc |-> "emit_stop", cursor |-> j, host |-> deflagOrder[j]]
        ELSE IF i # 0 THEN [pc |-> "emit_start", cursor |-> i, host |-> flagOrder[i]]
        ELSE [pc |-> "idle", cursor |-> 0, host |-> "none"]

NextEmit(loop, from, flags, flagOrder, deflags, deflagOrder, m) ==
    LET i == IF loop = "start"
             THEN NextOver(flags, flagOrder, m.FlagsBeforeActivation, from) ELSE 0
        j == NextOver(deflags, deflagOrder, m.DeflagsBeforeDeactivation,
                      IF loop = "start" THEN 1 ELSE from)
    IN  IF i # 0 THEN [pc |-> "emit_start", cursor |-> i, host |-> flagOrder[i]]
        ELSE IF j # 0 THEN [pc |-> "emit_stop", cursor |-> j, host |-> deflagOrder[j]]
        ELSE [pc |-> "idle", cursor |-> 0, host |-> "none"]

\* The stop loop without mitigated_host_ids.discard(host_id).
RunTo_NoDiscard(t, n) ==
    /\ pc' = [pc EXCEPT ![t] = n.pc]
    /\ cursor' = n.cursor
    /\ mitigated_host_ids' =
         IF n.pc = "emit_start" THEN mitigated_host_ids \cup {n.host}
         ELSE mitigated_host_ids
    /\ bus_lock' = IF n.pc \in {"idle", "exited"} THEN "free" ELSE t
    /\ detector_lock' = IF n.pc \in {"idle", "exited"} THEN "free" ELSE t

\* The handler runs on to `n`: the host is added to (discarded from) the mitigated
\* set right before the emit; on return both `with` blocks are left.
RunTo(t, n) ==
    /\ pc' = [pc EXCEPT ![t] = n.pc]
    /\ cursor' = n.cursor
    /\ mitigated_host_ids' =
         IF n.pc = "emit_start" THEN mitigated_host_ids \cup {n.host}
         ELSE IF n.pc = "emit_stop" THEN mitigated_host_ids \ {n.host}
         ELSE mitigated_host_ids
    /\ bus_lock' = IF n.pc \in {"idle", "exited"} THEN "free" ELSE t
    /\ detector_lock' = IF n.pc \in {"idle", "exited"} THEN "free" ELSE t

\* Phase (e) entered without the test of the Mitigation entry of the view.
AfterFlags_IgnoresEnabled(t, u, empty) ==
    LET m == configuration.Mitigation
        dispatch == u.exc = "none"
        n == IF dispatch
             THEN NextEmit("start", 1, u.host_flags, u.flag_order, u.host_deflags,
                           u.deflag_order, m)
             ELSE [pc |-> IF u.exc = "SystemExit" THEN "exited" ELSE "idle",
                   cursor |-> 0, host |-> "none"]
    IN  /\ host_metrics' = u.host_metrics /\ host_order' = u.host_order
        /\ global_metrics' = u.global_metrics
        /\ counted' = u.counted /\ benign_hosts' = u.benign_hosts
        /\ host_flags' = u.host_flags /\ flag_order' = u.flag_order
        /\ host_deflags' = u.host_deflags /\ deflag_order' = u.deflag_order
        /\ crossed_start' = {}
        /\ crossed_stop' = {}
        /\ RunTo(t, n)
        /\ batch' = [status |-> IF u.exc # "none" THEN "raised"
                                ELSE IF n.pc = "idle" THEN "done" ELSE "running",
                     exc |-> u.exc, phase |-> u.phase, empty |-> empty,
                     replaced |-> u.replaced]

\* The handler from the end of phase (d), reached with result u: phase (e) up to
\* its first emit, the return, or the exception.
AfterFlags(t, u, empty) ==
    LET m == configuration.Mitigation
        dispatch == u.exc = "none" /\ m.enabled
        n == IF dispatch
             THEN NextEmit("start", 1, u.host_flags, u.flag_order, u.host_deflags,
                           u.deflag_order, m)
             ELSE [pc |-> IF u.exc = "SystemExit" THEN "exited" ELSE "idle",
                   cursor |-> 0, host |-> "none"]
    IN  /\ host_metrics' = u.host_metrics /\ host_order' = u.host_order
        /\ global_metrics' = u.global_metrics
        /\ counted' = u.counted /\ benign_hosts' = u.benign_hosts
        /\ host_flags' = u.host_flags /\ flag_order' = u.flag_order
        /\ host_deflags' = u.host_deflags /\ deflag_order' = u.deflag_order
        /\ crossed_start' =
             IF dispatch THEN {h \in DOMAIN u.host_flags :
                                 u.host_flags[h] > m.FlagsBeforeActivation}
             ELSE {}
        /\ crossed_stop' =
             IF dispatch THEN {h \in DOMAIN u.host_deflags :
                                 u.host_deflags[h] > m.DeflagsBeforeDeactivation}
             ELSE {}
        /\ RunTo(t, n)
        /\ batch' = [status |-> IF u.exc # "none" THEN "raised"
                                ELSE IF n.pc = "idle" THEN "done" ELSE "running",
                     exc |-> u.exc, phase |-> u.phase, empty |-> empty,
                     replaced |-> u.replaced]

\* The handler entered without `with self._lock` of emit and `with self.__lock`.
EmitSample_NoLocks(t, payload) ==
    /\ ~exited /\ pc[t] = "idle" /\ nbatches < MaxBatches
    /\ nbatches' = nbatches + 1
    /\ starts' = Zero /\ stops' = Zero
    /\ \E a \in {RecordSamples(host_metrics, host_order, payload, configuration)} :
       \E g \in {update_global_metrics(a.hm, a.order, mitigated_host_ids)} :
       \E c \in {update_host_deltas(a.hm, a.order, g.global)} :
       \E f \in {update_host_flags(host_flags, flag_order, host_deflags, deflag_order, c.hm, a.order, mitigated_host_ids, configuration.Thresholds)} :
       \E u \in {BatchResult(a, g, c, f)} :
          /\ AfterFlags(t, u, payload = EmptyDict)
          /\ exited' = (u.exc = "SystemExit" /\ t = MainThread)
          /\ notified' = IF u.exc = "none" /\ pc'[t] = "idle"
                          THEN {"detector"} \cup LaterSubscribers
                          ELSE {"detector"}
    /\ UNCHANGED <<configuration, bus_reentrant, last_event, nreloads, cached>>
    /\ UNCHANGED singleton_vars

\* EventManager.emit(SampleEvent, payload) by producer t: __update_metrics, phases
\* (a) to (d) in turn, then phase (e) up to its first emit.
EmitSample(t, payload) ==
    /\ ~exited /\ pc[t] = "idle" /\ nbatches < MaxBatches
    /\ CanEnterEmit(t) /\ detector_lock = "free"
    /\ nbatches' = nbatches + 1
    /\ starts' = Zero /\ stops' = Zero
    /\ \E a \in {RecordSamples(host_metrics, host_order, payload, configuration)} :
       \E g \in {update_global_metrics(a.hm, a.order, mitigated_host_ids)} :
       \E c \in {update_host_deltas(a.hm, a.order, g.global)} :
       \E f \in {update_host_flags(host_flags, flag_order, host_deflags, deflag_order, c.hm, a.order, mitigated_host_ids, configuration.Thresholds)} :
       \E u \in {BatchResult(a, g, c, f)} :
          /\ AfterFlags(t, u, payload = EmptyDict)
          /\ exited' = (u.exc = "SystemExit" /\ t = MainThread)
          /\ notified' = IF u.exc = "none" /\ pc'[t] = "idle"
                          THEN {"detector"} \cup LaterSubscribers
                          ELSE {"detector"}
    /\ UNCHANGED <<configuration, bus_reentrant, last_event, nreloads, cached>>
    /\ UNCHANGED singleton_vars

\* The start loop without `self.host_flags[host_id] = 0`.
EmitStartMitigation_NoReset(t) ==
    /\ pc[t] = "emit_start"
    /\ CanEnterEmit(t)
    /\ LET h == flag_order[cursor]
           flags == host_flags
       IN  /\ last_event' = [last_event EXCEPT ![h] = "Start"]
           /\ starts' = [starts EXCEPT ![h] = @ + 1]
           /\ host_flags' = flags
           /\ LET n == NextEmit("start", cursor + 1, flags, flag_order, host_deflags,
                                deflag_order, configuration.Mitigation)
              IN  /\ RunTo(t, n)
                  /\ batch' = [batch EXCEPT
                                 !.status = IF n.pc = "idle" THEN "done" ELSE @]
                  /\ notified' = IF n.pc = "idle"
                                  THEN notified \cup LaterSubscribers ELSE notified
    /\ UNCHANGED <<configuration, host_metrics, host_order, flag_order, host_deflags,
                   deflag_order, global_metrics, bus_reentrant, stops, crossed_start,
                   crossed_stop, counted, benign_hosts, nbatches, nreloads,
                   exited, cached>>
    /\ UNCHANGED singleton_vars


\* EventManager.emit(StartMitigation, host_id) entered from inside the handler: the
\* subscribers' turn, the reset of the counter once emit has returned, and the
\* handler's run to its next emit or its return.
EmitStartMitigation(t) ==
    /\ pc[t] = "emit_start"
    /\ CanEnterEmit(t)
    /\ LET h == flag_order[cursor]
           flags == [host_flags EXCEPT ![h] = 0]
       IN  /\ last_event' = [last_event EXCEPT ![h] = "Start"]
           /\ starts' = [starts EXCEPT ![h] = @ + 1]
           /\ host_flags' = flags
           /\ LET n == NextEmit("start", cursor + 1, flags, flag_order, host_deflags,
                                deflag_order, configuration.Mitigation)
              IN  /\ RunTo(t, n)
                  /\ batch' = [batch EXCEPT
                                 !.status = IF n.pc = "idle" THEN "done" ELSE @]
                  /\ notified' = IF n.pc = "idle"
                                  THEN notified \cup LaterSubscribers ELSE notified
    /\ UNCHANGED <<configuration, host_metrics, host_order, flag_order, host_deflags,
                   deflag_order, global_metrics, bus_reentrant, stops, crossed_start,
                   crossed_stop, counted, benign_hosts, nbatches, nreloads,
                   exited, cached>>
    /\ UNCHANGED singleton_vars

\* The stop loop without `self.host_deflags[host_id] = 0`.
EmitStopMitigation_NoReset(t) ==
    /\ pc[t] = "emit_stop"
    /\ CanEnterEmit(t)
    /\ LET h == deflag_order[cursor]
       IN  /\ last_event' = [last_event EXCEPT ![h] = "Stop"]
           /\ stops' = [stops EXCEPT ![h] = @ + 1]
           /\ host_deflags' = host_deflags
           /\ LET n == NextEmit("stop", cursor + 1, host_flags, flag_order,
                                host_deflags, deflag_order, configuration.Mitigation)
              IN  /\ RunTo(t, n)
                  /\ batch' = [batch EXCEPT
                                 !.status = IF n.pc = "idle" THEN "done" ELSE @]
                  /\ notified' = IF n.pc = "idle"
                                  THEN notified \cup LaterSubscribers ELSE notified
    /\ UNCHANGED <<configuration, host_metrics, host_order, host_flags, flag_order,
                   deflag_order, global_metrics, bus_reentrant, starts, crossed_start,
                   crossed_stop, counted, benign_hosts, nbatches, nreloads,
                   exited, cached>>
    /\ UNCHANGED singleton_vars

\* EventManager.emit(StopMitigation, host_id), likewise.
EmitStopMitigation(t) ==
    /\ pc[t] = "emit_stop"
    /\ CanEnterEmit(t)
    /\ LET h == deflag_order[cursor]
           deflags == [host_deflags EXCEPT ![h] = 0]
       IN  /\ last_event' = [last_event EXCEPT ![h] = "Stop"]
           /\ stops' = [stops EXCEPT ![h] = @ + 1]
           /\ host_deflags' = deflags
           /\ LET n == NextEmit("stop", cursor + 1, host_flags, flag_order, deflags,
                                deflag_order, configuration.Mitigation)
              IN  /\ RunTo(t, n)
                  /\ batch' = [batch EXCEPT
                                 !.status = IF n.pc = "idle" THEN "done" ELSE @]
                  /\ notified' = IF n.pc = "idle"
                                  THEN notified \cup LaterSubscribers ELSE notified
    /\ UNCHANGED <<configuration, host_metrics, host_order, host_flags, flag_order,
                   deflag_order, global_metrics, bus_reentrant, starts, crossed_start,
                   crossed_stop, counted, benign_hosts, nbatches, nreloads,
                   exited, cached>>
    /\ UNCHANGED singleton_vars

\* __update_config called without going through EventManager.emit.
ReloadConfiguration_NoBusLock(view) ==
    /\ ~exited /\ nreloads < MaxReloads
    /\ nreloads' = nreloads + 1
    /\ cached' = view
    /\ configuration' = view
    /\ host_metrics' = update_config(host_metrics, host_order, view).hm
    /\ UNCHANGED <<host_order, host_flags, flag_order, host_deflags, deflag_order,
                   global_metrics, mitigated_host_ids, bus_reentrant, bus_lock,
                   detector_lock, pc, cursor, last_event, starts, stops,
                   crossed_start, crossed_stop, counted, benign_hosts, batch,
                   nbatches, exited, notified>>
    /\ UNCHANGED singleton_vars


\* ConfigurationManager.on_modified on the watcher thread: the new view is emitted
\* as ConfigurationReloaded and __update_config runs inside that emit.
ReloadConfiguration(view) ==
    /\ ~exited /\ nreloads < MaxReloads
    /\ bus_lock = "free"
    /\ nreloads' = nreloads + 1
    /\ cached' = view
    /\ configuration' = view
    /\ host_metrics' = update_config(host_metrics, host_order, view).hm
    /\ UNCHANGED <<host_order, host_flags, flag_order, host_deflags, deflag_order,
                   global_metrics, mitigated_host_ids, bus_reentrant, bus_lock,
                   detector_lock, pc, cursor, last_event, starts, stops,
                   crossed_start, crossed_stop, counted, benign_hosts, batch,
                   nbatches, exited, notified>>
    /\ UNCHANGED singleton_vars

\* What __build_configuration has assigned to __configuration when the parser
\* loaded nothing: every parser[...] is None, so the dict literal is built and
\* stored, and the loop over parser["Thresholds"] raises TypeError.
UnloadedView == [Mitigation |-> NoMitigation, Thresholds |-> EmptyDict]

\* on_modified for a file that JSONParser cannot load (bad MIME type or malformed
\* JSON): the TypeError leaves on_modified before its emit.
FailedReload ==
    /\ ~exited /\ nreloads < MaxReloads
    /\ nreloads' = nreloads + 1
    /\ cached' = UnloadedView
    /\ UNCHANGED <<configuration, host_metrics, host_order, host_flags, flag_order,
                   host_deflags, deflag_order, global_metrics, mitigated_host_ids,
                   bus_reentrant, bus_lock, detector_lock, pc, cursor, last_event,
                   starts, stops, crossed_start, crossed_stop, counted,
                   benign_hosts, batch, nbatches, exited, notified>>
    /\ UNCHANGED singleton_vars

Next ==
    \/ \E t \in Producers, payload \in Payloads : EmitSample(t, payload)
    \/ \E t \in Producers : EmitStartMitigation(t)
    \/ \E t \in Producers : EmitStopMitigation(t)
    \/ \E view \in ConfigViews : ReloadConfiguration(view)

Spec == Init /\ [][Next]_vars

\* A thread inside an emit that can proceed does proceed; nothing obliges a
\* producer to emit or the configuration file to change.
FairSpec ==
    Spec /\ \A t \in Producers :
               WF_vars(EmitStartMitigation(t)) /\ WF_vars(EmitStopMitigation(t))

\* ------------------------------------------------------------- scenarios
\* The configuration file of scenario S1, and the same file with a window of 4
\* samples and SamplesBeforeInclusion = 5.
S1View ==
    [Mitigation |-> Mitig(1, 1),
     Thresholds |-> [Activity |-> Rat(0, 1), Cpu |-> Rat(1, 10)],
     MaxSamples |-> 3, SamplesBeforeInclusion |-> 1,
     SamplesBeforeExclusion |-> 0, NormalizeSamples |-> FALSE]
S4View ==
    [S1View EXCEPT !.MaxSamples = 4, !.SamplesBeforeInclusion = 5]

\* S1 with the Cpu threshold at 1.0, and the same with FlagsBeforeActivation = 0.
CpuOneView == [S1View EXCEPT !.Thresholds["Cpu"] = Rat(1, 1)]
EagerView == [CpuOneView EXCEPT !.Mitigation = Mitig(0, 1)]

ScenarioViews == {S1View, S4View, CpuOneView, EagerView}

\* The samples of the scenarios.
Busy == [Activity |-> 2, Cpu |-> 100]
Calm == [Activity |-> 2, Cpu |-> 10]
Silent == [Activity |-> 0, Cpu |-> 9999]

Light == [Activity |-> 2]
Heavy == [Activity |-> 4]

ScenarioPayloads ==
    { [A |-> Busy, B |-> Calm],
      [A |-> Silent, B |-> Calm],
      [A |-> Light, B |-> Heavy],
      [A |-> Busy, B |-> Heavy] }

\* The detector as constructed under one of `views`, with producer threads
\* `threads`.
Constructed(views, threads) ==
    /\ configuration \in views
    /\ host_metrics = EmptyDict /\ host_order = <<>>
    /\ host_flags = EmptyDict /\ flag_order = <<>>
    /\ host_deflags = EmptyDict /\ deflag_order = <<>>
    /\ global_metrics = EmptyDict
    /\ mitigated_host_ids = {}
    /\ bus_reentrant \in BOOLEAN
    /\ bus_lock = "free" /\ detector_lock = "free"
    /\ pc = [t \in threads |-> "idle"]
    /\ exited = FALSE /\ cached = configuration /\ notified = {}
    /\ cursor = 0
    /\ last_event = [h \in Hosts |-> "none"]
    /\ starts = Zero /\ stops = Zero
    /\ crossed_start = {} /\ crossed_stop = {}
    /\ counted = {} /\ benign_hosts = 0
    /\ batch = [status |-> "none", exc |-> "none", phase |-> "none", empty |-> FALSE,
                replaced |-> {}]
    /\ nbatches = 0 /\ nreloads = 0

ScenarioInit == Constructed(ScenarioViews, Producers) /\ SingletonsBuilt

ScenarioNext ==
    \/ \E t \in Producers, payload \in ScenarioPayloads : EmitSample(t, payload)
    \/ \E t \in Producers : EmitStartMitigation(t)
    \/ \E t \in Producers : EmitStopMitigation(t)
    \/ \E view \in ScenarioViews : ReloadConfiguration(view)

ScenarioSpec == ScenarioInit /\ [][ScenarioNext]_vars

\* ----------------------------------------------------------- environment
\* Two producer threads, one of them the main thread; a configuration file that
\* may fail to load; a sample without the Activity metric.
EnvProducers == {MainThread, "worker"}
NoActivity == [Cpu |-> 10]

\* A configuration file whose Thresholds section has no Cpu entry.
NoCpuThresholdView == [CpuOneView EXCEPT !.Thresholds = [Activity |-> Rat(0, 1)]]

EnvViews == {CpuOneView, EagerView, NoCpuThresholdView}

EnvPayloads ==
    { [A |-> Light, B |-> Heavy],
      [A |-> Busy, B |-> Heavy],
      [A |-> Busy, B |-> Calm],
      [A |-> Busy, B |-> NoActivity] }

EnvInit == Constructed(EnvViews, EnvProducers) /\ SingletonsBuilt

EnvNext ==
    \/ \E t \in EnvProducers, payload \in EnvPayloads : EmitSample(t, payload)
    \/ \E t \in EnvProducers : EmitStartMitigation(t)
    \/ \E t \in EnvProducers : EmitStopMitigation(t)
    \/ \E view \in EnvViews : ReloadConfiguration(view)
    \/ FailedReload

EnvSpec == EnvInit /\ [][EnvNext]_vars

\* ------------------------------------------------------------- singletons

MaxCalls == 3

detector_vars ==
    <<configuration, host_metrics, host_order, host_flags, flag_order, host_deflags,
      deflag_order, global_metrics, mitigated_host_ids, bus_reentrant, bus_lock,
      detector_lock, pc, cursor, last_event, starts, stops, crossed_start,
      crossed_stop, counted, benign_hosts, batch, nbatches, nreloads, exited, cached,
      notified>>

\* Thread t calls the class c: EventManager() or CoResidencyDetector(...).
CallClass(t, c) ==
    /\ call[t].at = "idle" /\ ncalls < MaxCalls
    /\ call' = [call EXCEPT ![t] = [at |-> "check", cls |-> c, instance |-> 0]]
    /\ ncalls' = ncalls + 1
    /\ UNCHANGED <<instances, singleton_lock, init_runs, returned>>
    /\ UNCHANGED detector_vars

\* `if cls not in cls._instances` outside the lock.
FirstCheck(t) ==
    /\ call[t].at = "check"
    /\ call' = [call EXCEPT ![t].at =
                   IF instances[call[t].cls] = 0 THEN "lock" ELSE "return"]
    /\ UNCHANGED <<instances, singleton_lock, init_runs, returned, ncalls>>
    /\ UNCHANGED detector_vars

\* `with cls._lock`
AcquireLock(t) ==
    /\ call[t].at = "lock" /\ singleton_lock = "free"
    /\ singleton_lock' = t
    /\ call' = [call EXCEPT ![t].at = "recheck"]
    /\ UNCHANGED <<instances, init_runs, returned, ncalls>>
    /\ UNCHANGED detector_vars

\* The second check removed: whoever holds the lock constructs.
SecondCheck_Always(t) ==
    /\ call[t].at = "recheck"
    /\ call' = [call EXCEPT ![t].at = "construct"]
    /\ UNCHANGED <<instances, singleton_lock, init_runs, returned, ncalls>>
    /\ UNCHANGED detector_vars

\* `if cls not in cls._instances` under the lock.
SecondCheck(t) ==
    /\ call[t].at = "recheck"
    /\ call' = [call EXCEPT ![t].at =
                   IF instances[call[t].cls] = 0 THEN "construct" ELSE "unlock"]
    /\ UNCHANGED <<instances, singleton_lock, init_runs, returned, ncalls>>
    /\ UNCHANGED detector_vars

\* `instance = super().__call__(*args, **kwargs)`: a new object, whose
\* __init__ runs.
Construct(t) ==
    /\ call[t].at = "construct"
    /\ init_runs' = [init_runs EXCEPT ![call[t].cls] = @ + 1]
    /\ call' = [call EXCEPT ![t].at = "store",
                            ![t].instance = init_runs[call[t].cls] + 1]
    /\ UNCHANGED <<instances, singleton_lock, returned, ncalls>>
    /\ UNCHANGED detector_vars

\* `cls._instances[cls] = instance`
StoreInstance(t) ==
    /\ call[t].at = "store"
    /\ instances' = [instances EXCEPT ![call[t].cls] = call[t].instance]
    /\ call' = [call EXCEPT ![t].at = "unlock"]
    /\ UNCHANGED <<singleton_lock, init_runs, returned, ncalls>>
    /\ UNCHANGED detector_vars

\* Leaving the with block.
ReleaseLock(t) ==
    /\ call[t].at = "unlock"
    /\ singleton_lock' = "free"
    /\ call' = [call EXCEPT ![t].at = "return"]
    /\ UNCHANGED <<instances, init_runs, returned, ncalls>>
    /\ UNCHANGED detector_vars

\* `return cls._instances[cls]`
ReturnInstance(t) ==
    /\ call[t].at = "return"
    /\ returned' = [returned EXCEPT ![call[t].cls] = @ \cup {instances[call[t].cls]}]
    /\ call' = [call EXCEPT ![t] = NoCall]
    /\ UNCHANGED <<instances, singleton_lock, init_runs, ncalls>>
    /\ UNCHANGED detector_vars

\* A process in which no singleton class has been called yet; the detector's
\* fields hold what its __init__ will assign.
SingletonInit ==
    /\ Constructed({S1View}, Producers) /\ bus_reentrant = FALSE
    /\ instances = [c \in Classes |-> 0]
    /\ singleton_lock = "free"
    /\ call = [t \in EnvProducers |-> NoCall]
    /\ init_runs = [c \in Classes |-> 0]
    /\ returned = [c \in Classes |-> {}]
    /\ ncalls = 0

SingletonNext ==
    \/ \E t \in EnvProducers, c \in Classes : CallClass(t, c)
    \/ \E t \in EnvProducers : FirstCheck(t)
    \/ \E t \in EnvProducers : AcquireLock(t)
    \/ \E t \in EnvProducers : SecondCheck(t)
    \/ \E t \in EnvProducers : Construct(t)
    \/ \E t \in EnvProducers : StoreInstance(t)
    \/ \E t \in EnvProducers : ReleaseLock(t)
    \/ \E t \in EnvProducers : ReturnInstance(t)

SingletonSpec == SingletonInit /\ [][SingletonNext]_vars

\* ----------------------------------------------------------------- claims
Returned(t) == pc[t] = "idle" /\ bus_lock = "free" /\ detector_lock = "free"

\* C1: a batch that leaves hostFlags[h] over FlagsBeforeActivation (hostDeflags[h]
\* over DeflagsBeforeDeactivation) with Mitigation enabled leads to StartMitigation
\* (StopMitigation) delivered for h and to the producer's emit returned with the bus
\* mutex and the detector mutex released.
C1_EmitReturns ==
    \A t \in Producers : \A h \in Hosts :
        /\ (pc[t] # "idle" /\ h \in crossed_start) ~> (starts[h] > 0 /\ Returned(t))
        /\ (pc[t] # "idle" /\ h \in crossed_stop) ~> (stops[h] > 0 /\ Returned(t))

Quiet == \A t \in DOMAIN pc : pc[t] = "idle"

Lengths(hm) ==
    \A m \in DOMAIN hm.metrics :
        /\ Len(hm.metrics[m]) = hm.current_samples
        /\ Len(hm.normalized[m]) = hm.current_samples

\* C3: for every host and every metric present, Activity included, the raw and the
\* normalized sequence both hold exactly currentSamples entries.
C3_WindowLengths == \A h \in DOMAIN host_metrics : Lengths(host_metrics[h])

\* C4: for every host 1 <= currentSamples <= MaxSamples, MaxSamples being the
\* host's current capacity.
C4_SamplesWithinCapacity ==
    \A h \in DOMAIN host_metrics :
        /\ 1 <= host_metrics[h].current_samples
        /\ host_metrics[h].current_samples <= host_metrics[h].max_samples

\* The change of the active bit from `was` to that of hm is one the hysteresis
\* rule allows, with the sum and the thresholds hm has after the step.
AllowedFlip(was, hm) ==
    LET s == Sum(hm.metrics["Activity"])
    IN  /\ (~was /\ hm.active) => s > hm.activity_threshold
        /\ (was /\ ~hm.active) => s < hm.inactivity_threshold

\* C5: a step turns a host's active bit on only if sum(raw[Activity]) exceeds its
\* activityThreshold and off only if the sum is below its inactivityThreshold, so
\* never inside the band.
C5_Hysteresis ==
    [][\A h \in DOMAIN host_metrics' :
          AllowedFlip(IF h \in DOMAIN host_metrics THEN host_metrics[h].active
                      ELSE FALSE,
                      host_metrics'[h])]_vars

\* The hosts that are active and unmitigated when phase (b) of the batch begins.
BenignAtPhaseB ==
    {h \in DOMAIN host_metrics' : host_metrics'[h].active /\ h \notin mitigated_host_ids}

\* C6: in every batch that reaches phase (b) the hosts summed into globalMetrics are
\* exactly the active, unmitigated ones, and every sum is divided by their number.
C6_BaselineFromBenignHosts ==
    [][(nbatches' = nbatches + 1 /\ batch'.phase # "a") =>
          /\ counted' = BenignAtPhaseB
          /\ benign_hosts' = Cardinality(BenignAtPhaseB)
          /\ \A m \in DOMAIN global_metrics' :
                global_metrics'[m].den = Cardinality(BenignAtPhaseB)]_vars

\* A batch summed one host and skipped another.
C6_Witness ==
    /\ batch.status # "none" /\ batch.phase # "a"
    /\ \E h \in counted : \E g \in DOMAIN host_metrics : g \notin counted
    /\ global_metrics # EmptyDict

BatchEnded == Quiet /\ batch.status = "done"

\* C7: at the end of a batch, with Mitigation enabled, every host whose hostFlags was
\* over FlagsBeforeActivation is in mitigatedHostIds, had StartMitigation emitted
\* exactly once in the batch and has hostFlags 0; for any other host no
\* StartMitigation was emitted.
C7_StartTransition ==
    BatchEnded =>
        \A h \in Hosts :
            IF h \in crossed_start
            THEN h \in mitigated_host_ids /\ starts[h] = 1 /\ host_flags[h] = 0
            ELSE starts[h] = 0

\* A batch in which a host crossed FlagsBeforeActivation has ended.
C7_Witness == BatchEnded /\ crossed_start # {}

\* C8: at the end of a batch, with Mitigation enabled, every host whose hostDeflags
\* was over DeflagsBeforeDeactivation is out of mitigatedHostIds, had StopMitigation
\* emitted exactly once in the batch and has hostDeflags 0; for any other host no
\* StopMitigation was emitted.
C8_StopTransition ==
    BatchEnded =>
        \A h \in Hosts :
            IF h \in crossed_stop
            THEN h \notin mitigated_host_ids /\ stops[h] = 1 /\ host_deflags[h] = 0
            ELSE stops[h] = 0

\* A batch in which a host crossed DeflagsBeforeDeactivation has ended.
C8_Witness == BatchEnded /\ crossed_stop # {}

EmptyBatchStep == nbatches' = nbatches + 1 /\ batch'.empty

\* C9 as stated: a SampleEvent with an empty payload leaves hostMetrics, hostFlags,
\* hostDeflags and mitigatedHostIds unchanged and emits no mitigation event.
C9_EmptyPayloadNoOp ==
    [][EmptyBatchStep =>
          /\ UNCHANGED <<host_metrics, host_flags, host_deflags, mitigated_host_ids>>
          /\ Quiet']_vars

\* C9 amended: a SampleEvent with an empty payload records nothing: no host is
\* created and every host keeps its windows, currentSamples, capacity, thresholds and
\* active bit (its deltas may be recomputed).
C9_EmptyPayloadRecordsNothing ==
    [][EmptyBatchStep =>
          /\ host_order' = host_order
          /\ DOMAIN host_metrics' = DOMAIN host_metrics
          /\ \A h \in DOMAIN host_metrics :
                [host_metrics'[h] EXCEPT !.deltas = host_metrics[h].deltas]
                    = host_metrics[h]]_vars

\* An empty batch has emitted StartMitigation for a host with samples recorded.
C9_Witness ==
    /\ batch.empty
    /\ \E h \in DOMAIN host_metrics : starts[h] > 0 /\ host_metrics[h].current_samples > 1

\* C10: ConfigurationReloaded with the view the detector already uses leaves every
\* host's windows, currentSamples, thresholds, prefNormalized and active bit, and the
\* flags, deflags and mitigated set, unchanged.
C10_SameViewReload ==
    [][(nreloads' = nreloads + 1 /\ configuration' = configuration) =>
          UNCHANGED <<host_metrics, host_flags, host_deflags, mitigated_host_ids>>]_vars

\* C14: while the Mitigation entry of the detector's view is null no StartMitigation
\* or StopMitigation is emitted and mitigatedHostIds does not change, whatever the
\* counters hold.
C14_DisabledEmitsNothing ==
    [][~configuration.Mitigation.enabled =>
          /\ mitigated_host_ids' = mitigated_host_ids
          /\ last_event' = last_event
          /\ Quiet']_vars

\* A batch ended under a view without Mitigation with a counter of 2.
C14_Witness ==
    /\ ~configuration.Mitigation.enabled
    /\ BatchEnded
    /\ \E h \in DOMAIN host_flags : host_flags[h] >= 2

\* C20: a batch whose benign-host count is 0 leaves globalMetrics empty, and its
\* phases (c) and (d) raise nothing and change no host's deltas, hostFlags or
\* hostDeflags (a host object that phase (a) replaced is left aside).
C20_NoBenignHostIsNoOp ==
    [][(nbatches' = nbatches + 1 /\ batch'.phase # "a" /\ benign_hosts' = 0) =>
          /\ global_metrics' = EmptyDict
          /\ batch'.exc = "none"
          /\ \A h \in (DOMAIN host_metrics' \cap DOMAIN host_metrics) \ batch'.replaced :
                host_metrics'[h].deltas = host_metrics[h].deltas
          /\ host_flags' = host_flags /\ host_deflags' = host_deflags]_vars

\* k batches of scenario S1 have been fed and nothing else: the view is S1View,
\* never reloaded, and the windows hold k samples of Busy (host A) and of Calm
\* (host B).
S1Run(k) ==
    /\ configuration = S1View /\ nreloads = 0 /\ nbatches = k
    /\ DOMAIN host_metrics = {"A", "B"}
    /\ \A h \in {"A", "B"} : "Cpu" \in DOMAIN host_metrics[h].metrics
    /\ host_metrics["A"].metrics["Cpu"] = [i \in 1..k |-> 100]
    /\ host_metrics["B"].metrics["Cpu"] = [i \in 1..k |-> 10]

\* C11 (as stated): the three batches of scenario S1 emit StartMitigation(A) once,
\* in the second batch, and leave hostFlags[A] = 0 and A in mitigatedHostIds.
C11_S1StartsA ==
    /\ (S1Run(2) /\ BatchEnded) =>
          starts["A"] = 1 /\ "A" \in mitigated_host_ids
    /\ (S1Run(3) /\ BatchEnded) =>
          /\ starts["A"] = 0 /\ last_event["A"] = "Start"
          /\ "A" \in mitigated_host_ids
          /\ "A" \in DOMAIN host_flags /\ host_flags["A"] = 0

\* C11 (amended): in scenario S1 both hosts report Activity 2, so the Activity delta
\* of each is 0, which does not exceed the threshold 0.0: no host is flagged, no
\* StartMitigation is emitted and mitigatedHostIds stays empty in all three batches;
\* the baseline counts both hosts (Cpu 55) and both Cpu deltas are 9/11.
C11_S1FlagsNobody ==
    \A k \in 1..3 :
        S1Run(k) =>
            /\ batch.exc = "none" /\ BatchEnded
            /\ global_metrics = [Activity |-> Rat(4, 2), Cpu |-> Rat(110, 2)]
            /\ \A h \in {"A", "B"} :
                  /\ host_metrics[h].active
                  /\ host_metrics[h].deltas["Activity"].num = 0
                  /\ host_metrics[h].deltas["Cpu"].num * 11
                        = 9 * host_metrics[h].deltas["Cpu"].den
            /\ host_flags = EmptyDict /\ mitigated_host_ids = {}
            /\ \A h \in Hosts : last_event[h] = "none" /\ starts[h] = 0

C11_Witness == S1Run(3) /\ BatchEnded

\* The entry of h in dict d is the same before and after the step.
SameEntry(d, e, h) == (h \in DOMAIN e <=> h \in DOMAIN d) /\ (h \in DOMAIN d => e[h] = d[h])

\* Host h has been fed the sample Silent (Activity 0) in every batch so far, with
\* SamplesBeforeInclusion = 5 in force.
OnlySilent(h) ==
    /\ configuration.SamplesBeforeInclusion = 5
    /\ h \in DOMAIN host_metrics /\ nbatches >= 1
    /\ "Cpu" \in DOMAIN host_metrics[h].metrics
    /\ host_metrics[h].metrics["Cpu"] = [i \in 1..nbatches |-> 9999]

\* C12: a host whose active bit is false after phase (a) of a batch is not counted
\* in the baseline, keeps its deltas and keeps its hostFlags and hostDeflags
\* entries (absent stays absent); a host fed only Activity 0 under
\* SamplesBeforeInclusion = 5 is inactive and has no hostFlags entry.
C12_InactiveSkipped ==
    [][nbatches' = nbatches + 1 =>
         \A h \in DOMAIN host_metrics' :
            /\ ~host_metrics'[h].active =>
                  /\ h \notin counted'
                  /\ host_metrics'[h].deltas =
                        IF h \in DOMAIN host_metrics /\ h \notin batch'.replaced
                        THEN host_metrics[h].deltas ELSE EmptyDict
                  /\ SameEntry(host_flags, host_flags', h)
                  /\ SameEntry(host_deflags, host_deflags', h)
            /\ OnlySilent(h)' =>
                  ~host_metrics'[h].active /\ h \notin DOMAIN host_flags']_vars

\* Three batches in which A reported Activity 0 while B became active and made up
\* the baseline alone.
C12_Witness ==
    /\ OnlySilent("A") /\ nbatches >= 3 /\ BatchEnded
    /\ ~host_metrics["A"].active
    /\ counted = {"B"}

\* The last n entries of sequence s.
Newest(s, n) == SubSeq(s, Len(s) - n + 1, Len(s))

\* C13: when a reload lowers MaxSamples from M to N, every raw and normalized
\* sequence, Activity included, of a host whose window was full (M samples) holds
\* at most N entries afterwards, and they are the newest ones.
C13_ShrinkKeepsNewest ==
    [][(nreloads' = nreloads + 1
        /\ configuration'.MaxSamples < configuration.MaxSamples) =>
         \A h \in DOMAIN host_metrics :
            (/\ host_metrics[h].max_samples = configuration.MaxSamples
             /\ host_metrics[h].current_samples = configuration.MaxSamples) =>
               \A m \in DOMAIN host_metrics[h].metrics :
                  /\ Len(host_metrics'[h].metrics[m]) <= configuration'.MaxSamples
                  /\ Len(host_metrics'[h].normalized[m]) <= configuration'.MaxSamples
                  /\ host_metrics'[h].metrics[m] =
                        Newest(host_metrics[h].metrics[m],
                               Len(host_metrics'[h].metrics[m]))
                  /\ host_metrics'[h].normalized[m] =
                        Newest(host_metrics[h].normalized[m],
                               Len(host_metrics'[h].normalized[m]))]_vars

\* C16: within one sample batch every StartMitigation is emitted before any
\* StopMitigation: a StartMitigation is never emitted once a StopMitigation of the
\* same batch has been.
C16_StartsBeforeStops ==
    [][(\E h \in Hosts : starts'[h] = starts[h] + 1) =>
          \A g \in Hosts : stops[g] = 0]_vars

\* A batch that emitted a StartMitigation and a StopMitigation.
C16_Witness ==
    /\ BatchEnded
    /\ \E h \in Hosts : starts[h] = 1
    /\ \E g \in Hosts : stops[g] = 1

\* C15: a modify event whose load fails emits no ConfigurationReloaded, leaves the
\* ConfigurationManager's cached view as it was, and leaves the detector with its
\* configuration (and its hosts as configured).
C15_FailedLoadKeepsView ==
    [][FailedReload =>
          /\ cached' = cached
          /\ configuration' = configuration
          /\ host_metrics' = host_metrics]_vars

\* C17: when a subscriber (here the detector's SampleEvent handler) raises, the
\* subscribers registered after it are still called, emit does not raise to its
\* caller, and the bus lock is released.
C17_SubscriberExceptionContained ==
    (batch.exc \notin {"none", "SystemExit"}) =>
        /\ LaterSubscribers \subseteq notified
        /\ batch.status # "raised"
        /\ bus_lock = "free"

\* A thread is inside a batch: its handler is at an emit of phase (e).
MidBatch(t) == pc[t] \in {"emit_start", "emit_stop"}

\* C18: batches of different producer threads serialize: at most one thread is
\* inside a batch, that thread holds the detector's lock, and a batch begins only
\* when no thread is inside one.
C18_BatchesSerialize ==
    /\ [](\A t \in DOMAIN pc :
             MidBatch(t) =>
                /\ detector_lock = t
                /\ \A o \in DOMAIN pc \ {t} : ~MidBatch(o))
    /\ [][nbatches' = nbatches + 1 =>
             \A t \in DOMAIN pc : ~MidBatch(t)]_vars

\* One producer is inside its second or later batch while the other is idle.
C18_Witness ==
    /\ nbatches >= 2
    /\ MidBatch("worker") /\ pc[MainThread] = "idle"

\* C19: a batch that meets a first sample without Activity ends the process, stores
\* no HostMetrics for that host (B in these payloads), changes no flags or deflags
\* and emits no mitigation event.
C19_MissingActivityIsFatal ==
    [][(nbatches' = nbatches + 1 /\ batch'.exc = "SystemExit") =>
          /\ exited'
          /\ "B" \in DOMAIN host_metrics' =>
                "B" \in DOMAIN host_metrics /\ host_metrics'["B"] = host_metrics["B"]
          /\ host_flags' = host_flags /\ host_deflags' = host_deflags
          /\ mitigated_host_ids' = mitigated_host_ids
          /\ \A t \in DOMAIN pc : ~MidBatch(t)']_vars

\* C21: a batch whose baseline is 0 for some metric of an active host completes:
\* no division by zero leaves the delta computation.
C21_ZeroBaselineHandled ==
    [][(/\ nbatches' = nbatches + 1 /\ batch'.phase # "a"
        /\ \E h \in DOMAIN host_metrics' :
              /\ host_metrics'[h].active
              /\ \E m \in DOMAIN host_metrics'[h].metrics \cap DOMAIN global_metrics' :
                    global_metrics'[m].num = 0) =>
          batch'.exc = "none"]_vars

\* C22: a HostMetrics, once created, is never replaced: no batch stores a fresh
\* object under a known host id, and a host's currentSamples never goes down.
C22_HostObjectKept ==
    [][nbatches' = nbatches + 1 =>
          /\ batch'.replaced = {}
          /\ \A h \in DOMAIN host_metrics :
                /\ h \in DOMAIN host_metrics'
                /\ host_metrics'[h].current_samples >= host_metrics[h].current_samples]_vars

\* Window n is window o after one more sample at most: o itself, o with one value
\* appended, or o without its oldest value and with one value appended.
SlidOnce(o, n) ==
    \/ n = o
    \/ Len(n) = Len(o) + 1 /\ SubSeq(n, 1, Len(o)) = o
    \/ Len(n) = Len(o) /\ Len(o) >= 1 /\ SubSeq(n, 1, Len(n) - 1) = Tail(o)

\* C23: with no reconfiguration, each batch leaves raw[m] of a host, Activity
\* included, as the last min(k, MaxSamples) sample values in arrival order: the
\* window gains the new value at its end, loses its oldest value when full, and
\* never holds more than MaxSamples entries.
C23_RawIsLastSamples ==
    [][(nbatches' = nbatches + 1 /\ nreloads = 0 /\ batch'.exc = "none") =>
          \A h \in DOMAIN host_metrics' :
             \A m \in DOMAIN host_metrics'[h].metrics :
                /\ Len(host_metrics'[h].metrics[m]) <= host_metrics'[h].max_samples
                /\ (h \in DOMAIN host_metrics /\ h \notin batch'.replaced) =>
                      SlidOnce(host_metrics[h].metrics[m],
                               host_metrics'[h].metrics[m])]_vars

\* normalized[m] is as long as raw[m] and every entry but the first is the
\* difference of the raw entry and its predecessor.
DiffsHold(hm, m) ==
    /\ Len(hm.normalized[m]) = Len(hm.metrics[m])
    /\ \A i \in 2..Len(hm.metrics[m]) :
          hm.normalized[m][i] = hm.metrics[m][i] - hm.metrics[m][i - 1]

OtherMetrics(hm) == DOMAIN hm.metrics \ {"Activity"}

\* C24: for every host and every metric other than Activity, in every state,
\* normalized[0] = raw[0] and normalized[i] = raw[i] - raw[i-1] for i >= 1.
C24_SeedAndDiffs ==
    \A h \in DOMAIN host_metrics :
       \A m \in OtherMetrics(host_metrics[h]) :
          /\ DiffsHold(host_metrics[h], m)
          /\ host_metrics[h].metrics[m] # <<>> =>
                host_metrics[h].normalized[m][1] = host_metrics[h].metrics[m][1]

\* Every delta is strictly over its threshold.
AllExceed(deltas, thresholds) ==
    \A m \in DOMAIN deltas :
       /\ m \in DOMAIN thresholds
       /\ thresholds[m].num * deltas[m].den < deltas[m].num * thresholds[m].den

\* Counter d had entry h raised by one (created at 1) to give e.
Incremented(d, e, h) ==
    h \in DOMAIN e /\ e[h] = (IF h \in DOMAIN d THEN d[h] + 1 ELSE 1)

\* C25: in a batch that completes phase (d), an active host whose deltas all
\* strictly exceed their thresholds gets hostDeflags 0 when mitigated and hostFlags
\* plus one otherwise; an active host not exceeding gets hostDeflags plus one when
\* mitigated and keeps hostFlags otherwise.  hostFlags of a host only goes down by
\* the reset to 0 that follows its StartMitigation.
C25_CounterRule ==
    /\ [][(nbatches' = nbatches + 1 /\ batch'.phase = "none") =>
            \A h \in DOMAIN host_metrics' :
               host_metrics'[h].active =>
                  IF AllExceed(host_metrics'[h].deltas, configuration.Thresholds)
                  THEN IF h \in mitigated_host_ids
                       THEN /\ h \in DOMAIN host_deflags' /\ host_deflags'[h] = 0
                            /\ SameEntry(host_flags, host_flags', h)
                       ELSE /\ Incremented(host_flags, host_flags', h)
                            /\ SameEntry(host_deflags, host_deflags', h)
                  ELSE IF h \in mitigated_host_ids
                       THEN /\ Incremented(host_deflags, host_deflags', h)
                            /\ SameEntry(host_flags, host_flags', h)
                       ELSE /\ SameEntry(host_flags, host_flags', h)
                            /\ SameEntry(host_deflags, host_deflags', h)]_vars
    /\ [][\A h \in DOMAIN host_flags :
            /\ h \in DOMAIN host_flags'
            /\ \/ host_flags'[h] >= host_flags[h]
               \/ host_flags'[h] = 0 /\ starts'[h] = starts[h] + 1]_vars

\* A batch ended with a benign host that did not exceed and kept its flags next to
\* a mitigated host whose deflags were raised.
C25_Witness ==
    /\ BatchEnded /\ batch.phase = "none"
    /\ \E h \in DOMAIN host_flags, g \in DOMAIN host_deflags :
          /\ h \notin mitigated_host_ids /\ host_flags[h] >= 1
          /\ host_metrics[h].active
          /\ ~AllExceed(host_metrics[h].deltas, configuration.Thresholds)
          /\ g \in mitigated_host_ids /\ host_deflags[g] >= 1

\* C26: a batch in which an active host has a delta for a metric without a
\* Thresholds entry completes phase (d) without error, the host being flagged
\* according to its other metrics only.
C26_MissingThresholdIgnored ==
    [][(/\ nbatches' = nbatches + 1 /\ batch'.phase \notin {"a", "c"}
        /\ \E h \in DOMAIN host_metrics' :
              /\ host_metrics'[h].active
              /\ DOMAIN host_metrics'[h].deltas \ DOMAIN configuration.Thresholds # {}) =>
          /\ batch'.exc = "none"
          /\ \A h \in DOMAIN host_metrics' :
                (host_metrics'[h].active /\ h \notin mitigated_host_ids) =>
                   IF AllExceed([m \in DOMAIN host_metrics'[h].deltas
                                      \cap DOMAIN configuration.Thresholds |->
                                   host_metrics'[h].deltas[m]],
                                configuration.Thresholds)
                   THEN Incremented(host_flags, host_flags', h)
                   ELSE SameEntry(host_flags, host_flags', h)]_vars

\* C27: however the threads calling a singleton class interleave, every call
\* of the class returns the same instance and the class's __init__ runs once:
\* never twice, and once as soon as a call has returned.
C27_OneInstance ==
    \A c \in Classes :
        /\ init_runs[c] <= 1
        /\ Cardinality(returned[c]) <= 1
        /\ returned[c] # {} => (init_runs[c] = 1 /\ returned[c] = {instances[c]})

\* A thread holds the lock on its way to the second check although another
\* thread's call has already built and returned the instance.
C27_Witness ==
    \E t \in DOMAIN call :
        /\ call[t].at = "recheck"
        /\ call[t].cls \in Classes
        /\ returned[call[t].cls] # {}
        /\ ncalls > 0

\* C28: at every batch boundary a host with hostFlags over 0 is not in
\* mitigatedHostIds and a host with hostDeflags over 0 is in mitigatedHostIds.
C28_CountersMatchMitigation ==
    Quiet =>
        /\ \A h \in DOMAIN host_flags :
              host_flags[h] > 0 => h \notin mitigated_host_ids
        /\ \A h \in DOMAIN host_deflags :
              host_deflags[h] > 0 => h \in mitigated_host_ids

\* Between two batches one host carries pending flags and a mitigated host
\* carries pending deflags.
C28_Witness ==
    /\ Quiet /\ nbatches > 1
    /\ \E h \in DOMAIN host_flags : host_flags[h] > 0
    /\ \E h \in DOMAIN host_deflags : host_deflags[h] > 0 /\ h \in mitigated_host_ids

\* C29: the detector's reconfiguration handler runs only when no thread is
\* inside a sample batch: a reload is delivered with the bus free and no
\* producer between phases (a) and (e).
C29_ReloadOutsideBatches ==
    [][(nreloads' = nreloads + 1 /\ cached' # UnloadedView) =>
          /\ bus_lock = "free"
          /\ \A t \in DOMAIN pc : ~MidBatch(t) /\ ~MidBatch(t)']_vars

\* A reload that disabled mitigation was delivered after a batch that went
\* through the emits of phase (e).
C29_Witness ==
    /\ nreloads > 0 /\ Quiet /\ batch.status = "done"
    /\ \E h \in Hosts : starts[h] > 0
    /\ configuration.Mitigation = NoMitigation

Min(a, b) == IF a <= b THEN a ELSE b

\* C30: a reload that lowers MaxSamples completes without raising, and a host
\* whose window was not yet full (sequences of currentSamples entries, fewer
\* than the old MaxSamples) keeps in every sequence its newest
\* min(currentSamples, new MaxSamples) entries.
C30_ShrinkKeepsFittingSamples ==
    [][(/\ nreloads' = nreloads + 1 /\ cached' # UnloadedView
        /\ configuration'.MaxSamples < configuration.MaxSamples) =>
          /\ update_config(host_metrics, host_order, configuration').exc = "none"
          /\ \A h \in DOMAIN host_metrics :
                (/\ Lengths(host_metrics[h])
                 /\ host_metrics[h].current_samples < host_metrics[h].max_samples) =>
                   \A m \in DOMAIN host_metrics[h].metrics :
                      LET k == Min(host_metrics[h].current_samples,
                                   configuration'.MaxSamples)
                      IN  /\ host_metrics'[h].metrics[m] =
                                Newest(host_metrics[h].metrics[m], k)
                          /\ host_metrics'[h].normalized[m] =
                                Newest(host_metrics[h].normalized[m], k)]_vars

====
